---- MODULE Spec2Model ----
(***************************************************************************)
(* Model of pkg/tar/tar.go: ExtractTar, ExtractFile, ExtractFileFromTar    *)
(* and makedev, together with the path functions (filepath.Join, Clean,    *)
(* Dir, strings.HasPrefix) and the file system calls (os.MkdirAll,         *)
(* OpenFile, Link, Symlink, syscall.Mknod, Umask) the code relies on.      *)
(*                                                                         *)
(* A Go string is a sequence of one-character strings, so that textual     *)
(* operations (prefix test, cleaning, joining) are computed as the         *)
(* library computes them.  The file system is a table of names (real       *)
(* absolute paths, as sequences of components) to inode numbers and a      *)
(* table of inodes.                                                        *)
(***************************************************************************)
EXTENDS Integers, Sequences, FiniteSets, TLC

(***************************************************************************)
(* Strings and paths                                                       *)
(***************************************************************************)
Sep == "/"
Dot == <<".">>
DotDot == <<".", ".">>

\* strings.HasPrefix(s, prefix)
HasPrefix(s, prefix) ==
    /\ Len(s) >= Len(prefix)
    /\ SubSeq(s, 1, Len(prefix)) = prefix

\* the pieces of s between separators, empty pieces included
RECURSIVE SplitAcc(_, _, _)
SplitAcc(s, cur, acc) ==
    IF s = <<>> THEN Append(acc, cur)
    ELSE IF Head(s) = Sep THEN SplitAcc(Tail(s), <<>>, Append(acc, cur))
    ELSE SplitAcc(Tail(s), Append(cur, Head(s)), acc)

NonEmpty(c) == c /= <<>>

\* the non-empty path components of s
Components(s) == SelectSeq(SplitAcc(s, <<>>, <<>>), NonEmpty)

IsRooted(s) == s /= <<>> /\ s[1] = Sep

\* components joined by single separators
RECURSIVE JoinComps(_)
JoinComps(cs) ==
    IF cs = <<>> THEN <<>>
    ELSE IF Len(cs) = 1 THEN cs[1]
    ELSE cs[1] \o <<Sep>> \o JoinComps(Tail(cs))

\* filepath.Clean's pass over the components: "." dropped, ".." removes the
\* preceding component, is dropped at the root, and is kept at the front of a
\* relative path
RECURSIVE CleanStack(_, _, _)
CleanStack(cs, out, rooted) ==
    IF cs = <<>> THEN out
    ELSE LET c == Head(cs) IN
         IF c = Dot THEN CleanStack(Tail(cs), out, rooted)
         ELSE IF c = DotDot THEN
              IF out /= <<>> /\ out[Len(out)] /= DotDot
                 THEN CleanStack(Tail(cs), SubSeq(out, 1, Len(out) - 1), rooted)
              ELSE IF rooted THEN CleanStack(Tail(cs), out, rooted)
              ELSE CleanStack(Tail(cs), Append(out, c), rooted)
         ELSE CleanStack(Tail(cs), Append(out, c), rooted)

\* filepath.Clean(path)
Clean(s) ==
    LET rooted == IsRooted(s)
        body == JoinComps(CleanStack(Components(s), <<>>, rooted))
    IN IF rooted THEN <<Sep>> \o body
       ELSE IF body = <<>> THEN Dot
       ELSE body

\* filepath.Join(a, b): empty elements are ignored, the result is cleaned
Join(a, b) ==
    IF a = <<>> /\ b = <<>> THEN <<>>
    ELSE IF a = <<>> THEN Clean(b)
    ELSE IF b = <<>> THEN Clean(a)
    ELSE Clean(a \o <<Sep>> \o b)

\* index of the last separator of s, 0 when there is none
RECURSIVE LastSep(_, _)
LastSep(s, i) ==
    IF i = 0 THEN 0
    ELSE IF s[i] = Sep THEN i
    ELSE LastSep(s, i - 1)

\* filepath.Dir(path): all but the last element, cleaned
Dir(s) == Clean(SubSeq(s, 1, LastSep(s, Len(s))))

(***************************************************************************)
(* Permission bits                                                         *)
(***************************************************************************)
DEFAULT_DIR_MODE == 493

\* a &^ b on the low n bits
RECURSIVE BitAndNot(_, _, _)
BitAndNot(a, b, n) ==
    IF n = 0 THEN 0
    ELSE (IF a % 2 = 1 /\ b % 2 = 0 THEN 1 ELSE 0)
         + 2 * BitAndNot(a \div 2, b \div 2, n - 1)

\* the mode the kernel gives a new object: mode & ~umask
Masked(mode, um) == BitAndNot(mode, um, 12)

\* hdr.FileInfo().Mode(): the permission bits of the header
FileMode(hdr) == hdr.Mode % 512

\* makedev(major, minor); the four fields are disjoint for the device numbers
\* of the model, so the bitwise or is their sum
makedev(major, minor) ==
    (minor % 256) + ((major % 4096) * 256)
    + ((minor \div 256) * 1048576) + ((major \div 4096) * 4096 * 1048576 * 4096)

(***************************************************************************)
(* Errors: dyn is the dynamic Go type of the error value, site the call    *)
(* that produced it (part of its message text only)                        *)
(***************************************************************************)
NoErr == [dyn |-> "nil", site |-> "nil"]
PathError(site) == [dyn |-> "*os.PathError", site |-> site]
LinkError(site) == [dyn |-> "*os.LinkError", site |-> site]
Errno(site) == [dyn |-> "syscall.Errno", site |-> site]
\* fmt.Errorf(format, ...) with no %w verb
Errorf(site) == [dyn |-> "*errors.errorString", site |-> site]
\* insecureLinkError(err): a conversion to a named interface type keeps the
\* dynamic type of the value
insecureLinkError(err) == err

(***************************************************************************)
(* File system                                                             *)
(***************************************************************************)
SymlinkFuel == 4
\* working directory of the process
Cwd == << <<"w">> >>

Inode(kind, mode, data, target, dev) ==
    [kind |-> kind, mode |-> mode, data |-> data, target |-> target, dev |-> dev]

Exists(fs, path) == path \in DOMAIN fs.names
NodeAt(fs, path) == fs.inodes[fs.names[path]]
IsDirAt(fs, path) == Exists(fs, path) /\ NodeAt(fs, path).kind = "dir"
Parent(path) == IF path = <<>> THEN <<>> ELSE SubSeq(path, 1, Len(path) - 1)

\* path resolution of the kernel: every component but the last is followed
\* when it is a symbolic link, the last one when followLast
RECURSIVE Walk(_, _, _, _, _)
Walk(fs, cur, rest, fuel, followLast) ==
    IF rest = <<>> THEN [ok |-> TRUE, path |-> cur]
    ELSE IF ~IsDirAt(fs, cur) THEN [ok |-> FALSE, path |-> cur]
    ELSE LET c == Head(rest)
             next == Append(cur, c)
         IN IF c = Dot THEN Walk(fs, cur, Tail(rest), fuel, followLast)
            ELSE IF c = DotDot THEN Walk(fs, Parent(cur), Tail(rest), fuel, followLast)
            ELSE IF /\ Exists(fs, next)
                    /\ NodeAt(fs, next).kind = "symlink"
                    /\ (Tail(rest) /= <<>> \/ followLast)
                 THEN IF fuel = 0 THEN [ok |-> FALSE, path |-> next]
                      ELSE LET t == NodeAt(fs, next).target
                           IN Walk(fs, IF IsRooted(t) THEN <<>> ELSE cur,
                                   Components(t) \o Tail(rest), fuel - 1, followLast)
            ELSE Walk(fs, next, Tail(rest), fuel, followLast)

Resolve(fs, s, followLast) ==
    IF s = <<>> THEN [ok |-> FALSE, path |-> <<>>]
    ELSE Walk(fs, IF IsRooted(s) THEN <<>> ELSE Cwd, Components(s), SymlinkFuel, followLast)

\* a new inode under a new name
Create(fs, path, node) ==
    LET ino == Cardinality(DOMAIN fs.inodes)
    IN [names |-> (path :> ino) @@ fs.names, inodes |-> (ino :> node) @@ fs.inodes]

Ok(fs) == [fs |-> fs, err |-> NoErr]
Fail(fs, err) == [fs |-> fs, err |-> err]

\* os.Mkdir(s, perm)
Mkdir(fs, s, perm, um) ==
    LET r == Resolve(fs, s, FALSE)
    IN IF ~r.ok \/ Exists(fs, r.path) THEN Fail(fs, PathError("mkdir"))
       ELSE Ok(Create(fs, r.path, Inode("dir", Masked(perm, um), <<>>, <<>>, 0)))

\* os.MkdirAll(s, perm)
RECURSIVE MkdirAll(_, _, _, _)
MkdirAll(fs, s, perm, um) ==
    LET st == Resolve(fs, s, TRUE)
        j == LastSep(s, Len(s))
    IN IF st.ok /\ Exists(fs, st.path)
       THEN IF IsDirAt(fs, st.path) THEN Ok(fs) ELSE Fail(fs, PathError("mkdir"))
       ELSE LET up == IF j > 1 THEN MkdirAll(fs, SubSeq(s, 1, j - 1), perm, um) ELSE Ok(fs)
            IN IF up.err /= NoErr THEN up
               ELSE LET made == Mkdir(up.fs, s, perm, um)
                        ls == Resolve(up.fs, s, FALSE)
                    IN IF made.err /= NoErr /\ ls.ok /\ IsDirAt(up.fs, ls.path)
                       THEN Ok(up.fs) ELSE made

\* os.OpenFile(s, O_CREATE|O_RDWR, perm): the inode opened is the one named
\* after the call; an existing file is opened as it is
OpenFile(fs, s, perm, um) ==
    LET r == Resolve(fs, s, TRUE)
    IN IF ~r.ok THEN Fail(fs, PathError("open"))
       ELSE IF Exists(fs, r.path)
            THEN IF NodeAt(fs, r.path).kind = "file" THEN [fs |-> fs, err |-> NoErr, path |-> r.path]
                 ELSE Fail(fs, PathError("open"))
       ELSE [fs |-> Create(fs, r.path, Inode("file", Masked(perm, um), <<>>, <<>>, 0)),
             err |-> NoErr, path |-> r.path]

\* the bytes of a file after n bytes of content were written at offset 0
Overwrite(old, content, n) ==
    SubSeq(content, 1, n) \o SubSeq(old, n + 1, Len(old))

\* io.Copy(f, tr) on the file opened at path, stopping after n bytes
Copy(fs, path, content, n) ==
    LET ino == fs.names[path]
        node == fs.inodes[ino]
    IN [names |-> fs.names,
        inodes |-> [fs.inodes EXCEPT ![ino] =
                      [node EXCEPT !.data = Overwrite(node.data, content, n)]]]

\* f.Chmod(perm) on the directory opened at path
Chmod(fs, path, perm) ==
    LET ino == fs.names[path]
    IN [names |-> fs.names,
        inodes |-> [fs.inodes EXCEPT ![ino] = [@ EXCEPT !.mode = perm]]]

\* os.Link(old, new)
Link(fs, old, new) ==
    LET o == Resolve(fs, old, FALSE)
        n == Resolve(fs, new, FALSE)
    IN IF \/ ~o.ok \/ ~Exists(fs, o.path) \/ IsDirAt(fs, o.path)
          \/ ~n.ok \/ Exists(fs, n.path)
       THEN Fail(fs, LinkError("link"))
       ELSE Ok([names |-> (n.path :> fs.names[o.path]) @@ fs.names, inodes |-> fs.inodes])

\* os.Symlink(target, new)
Symlink(fs, target, new) ==
    LET n == Resolve(fs, new, FALSE)
    IN IF ~n.ok \/ Exists(fs, n.path) \/ target = <<>> THEN Fail(fs, LinkError("symlink"))
       ELSE Ok(Create(fs, n.path, Inode("symlink", 511, <<>>, target, 0)))

\* syscall.Mknod(s, mode, dev), kind from the S_IFCHR or S_IFBLK bit of mode
Mknod(fs, s, kind, perm, dev, um) ==
    LET n == Resolve(fs, s, FALSE)
    IN IF ~n.ok \/ Exists(fs, n.path) THEN Fail(fs, Errno("mknod"))
       ELSE Ok(Create(fs, n.path, Inode(kind, Masked(perm, um), <<>>, <<>>, dev)))

(***************************************************************************)
(* ExtractFile                                                             *)
(***************************************************************************)
\* An environment failure (EIO, ENOSPC, EACCES, a truncated archive) of the
\* fail.call-th library call of ExtractFile; 0 is no failure.  A failed copy
\* has written fail.wrote bytes.  The kernel's permission checks are not
\* modelled apart: a call denied for the mode of a directory is one of these
\* failures.
Sys(k, fail, fs, err, result) == IF fail.call = k THEN Fail(fs, err) ELSE result

Min(a, b) == IF a < b THEN a ELSE b

\* case typ == tar.TypeReg || typ == tar.TypeRegA
ExtractReg(fs, um, p, perm, content, fail) ==
    LET r2 == Sys(2, fail, fs, PathError("mkdir"), MkdirAll(fs, Dir(p), DEFAULT_DIR_MODE, um))
    IN IF r2.err /= NoErr THEN r2
       ELSE LET r3 == Sys(3, fail, r2.fs, PathError("open"), OpenFile(r2.fs, p, perm, um))
            IN IF r3.err /= NoErr THEN Fail(r3.fs, r3.err)
               ELSE IF fail.call = 4
                    THEN Fail(Copy(r3.fs, r3.path, content, Min(fail.wrote, Len(content))),
                              PathError("write"))
                    ELSE Ok(Copy(r3.fs, r3.path, content, Len(content)))

\* ExtractDir without the Chmod: the mode is left to MkdirAll
ExtractDir_NoChmod(fs, um, p, perm, fail) ==
    Sys(2, fail, fs, PathError("mkdir"), MkdirAll(fs, p, perm, um))

\* case typ == tar.TypeDir
ExtractDir(fs, um, p, perm, fail) ==
    LET r2 == Sys(2, fail, fs, PathError("mkdir"), MkdirAll(fs, p, perm, um))
    IN IF r2.err /= NoErr THEN r2
       ELSE LET d == Resolve(r2.fs, p, TRUE)
            IN IF fail.call = 3 \/ ~d.ok \/ ~Exists(r2.fs, d.path)
                  THEN Fail(r2.fs, PathError("open"))
               ELSE IF fail.call = 4 THEN Fail(r2.fs, PathError("chmod"))
               ELSE Ok(Chmod(r2.fs, d.path, perm))

\* case typ == tar.TypeLink
ExtractLink(fs, p, dir, hdr, fail) ==
    LET dest == Join(dir, hdr.Linkname)
    IN IF ~HasPrefix(dest, dir) THEN Fail(fs, insecureLinkError(Errorf("insecure link")))
       ELSE Sys(2, fail, fs, LinkError("link"), Link(fs, dest, p))

\* case typ == tar.TypeSymlink
ExtractSymlink(fs, p, dir, hdr, fail) ==
    LET dest == Join(Dir(p), hdr.Linkname)
    IN IF ~HasPrefix(dest, dir) THEN Fail(fs, insecureLinkError(Errorf("insecure symlink")))
       ELSE Sys(2, fail, fs, LinkError("symlink"), Symlink(fs, hdr.Linkname, p))

\* case typ == tar.TypeChar, case typ == tar.TypeBlock
ExtractDev(fs, um, p, perm, kind, hdr, fail) ==
    Sys(2, fail, fs, Errno("mknod"),
        Mknod(fs, p, kind, perm, makedev(hdr.Devmajor, hdr.Devminor), um))

\* ExtractFile(tr, hdr, dir), content being what tr yields for the entry
ExtractFile(fs, um, hdr, content, dir, fail) ==
    LET p == Join(dir, hdr.Name)
        perm == FileMode(hdr)
        typ == hdr.Typeflag
        r1 == Sys(1, fail, fs, PathError("mkdir"), MkdirAll(fs, Dir(p), DEFAULT_DIR_MODE, um))
    IN IF r1.err /= NoErr THEN r1
       ELSE IF typ = "TypeReg" \/ typ = "TypeRegA"
            THEN ExtractReg(r1.fs, um, p, perm, content, fail)
       ELSE IF typ = "TypeDir" THEN ExtractDir(r1.fs, um, p, perm, fail)
       ELSE IF typ = "TypeLink" THEN ExtractLink(r1.fs, p, dir, hdr, fail)
       ELSE IF typ = "TypeSymlink" THEN ExtractSymlink(r1.fs, p, dir, hdr, fail)
       ELSE IF typ = "TypeChar" THEN ExtractDev(r1.fs, um, p, perm, "chr", hdr, fail)
       ELSE IF typ = "TypeBlock" THEN ExtractDev(r1.fs, um, p, perm, "blk", hdr, fail)
       ELSE Fail(r1.fs, Errorf("unsupported type"))

(***************************************************************************)
(* ExtractFileFromTar                                                      *)
(***************************************************************************)
\* ExtractFileFromTar that goes on to the next entry when the matching
\* entry is not a regular file
RECURSIVE ExtractFileFromTar_SkipOthers(_, _)
ExtractFileFromTar_SkipOthers(tr, file) ==
    IF tr = <<>> THEN [buf |-> <<>>, err |-> Errorf("file not found")]
    ELSE LET e == Head(tr) IN
         IF e.hdr.Typeflag = "readerr"
            THEN [buf |-> <<>>, err |-> Errorf("error extracting tarball")]
         ELSE IF Clean(e.hdr.Name) /= Clean(file) \/ e.hdr.Typeflag \notin {"TypeReg", "TypeRegA"}
            THEN ExtractFileFromTar_SkipOthers(Tail(tr), file)
         ELSE IF e.truncated
            THEN [buf |-> <<>>, err |-> Errorf("error extracting tarball")]
         ELSE [buf |-> e.content, err |-> NoErr]

\* An archive is the sequence of what tr.Next() returns: a header with the
\* entry's content, or a read error (hdr.Typeflag = "readerr"); after the last
\* item tr.Next() returns io.EOF.  An entry with truncated = TRUE makes
\* ioutil.ReadAll fail.
RECURSIVE ExtractFileFromTar(_, _)
ExtractFileFromTar(tr, file) ==
    IF tr = <<>> THEN [buf |-> <<>>, err |-> Errorf("file not found")]
    ELSE LET e == Head(tr) IN
         IF e.hdr.Typeflag = "readerr"
            THEN [buf |-> <<>>, err |-> Errorf("error extracting tarball")]
         ELSE IF Clean(e.hdr.Name) /= Clean(file) THEN ExtractFileFromTar(Tail(tr), file)
         ELSE IF e.hdr.Typeflag \notin {"TypeReg", "TypeRegA"}
            THEN [buf |-> <<>>, err |-> Errorf("requested file not a regular file")]
         ELSE IF e.truncated
            THEN [buf |-> <<>>, err |-> Errorf("error extracting tarball")]
         ELSE [buf |-> e.content, err |-> NoErr]

(***************************************************************************)
(* Inputs                                                                  *)
(***************************************************************************)
MaxEntries == 2
MaxCalls == 2
MaxArchive == 3

Hdr(name, typ, mode, link, major, minor) ==
    [Name |-> name, Typeflag |-> typ, Mode |-> mode, Linkname |-> link,
     Devmajor |-> major, Devminor |-> minor]
Entry(hdr, content) == [hdr |-> hdr, content |-> content]
Item(hdr, content, truncated) == [hdr |-> hdr, content |-> content, truncated |-> truncated]
NoHdr == Hdr(<<>>, "none", 0, <<>>, 0, 0)

\* the file system before the call: the destination /o with a sibling /ox
\* whose name extends the destination's, the same two under the working
\* directory /w, and /e/p outside them
BaseFS ==
    [names |-> (<<  >> :> 0) @@
               (<< <<"w">> >> :> 1) @@
               (<< <<"o">> >> :> 2) @@
               (<< <<"w">>, <<"o">> >> :> 3) @@
               (<< <<"o", "x">> >> :> 4) @@
               (<< <<"e">> >> :> 5) @@
               (<< <<"e">>, <<"p">> >> :> 6) @@
               (<< <<"o", "x">>, <<"f">> >> :> 7) @@
               (<< <<"w">>, <<"o", "x">> >> :> 8) @@
               (<< <<"w">>, <<"o", "x">>, <<"f">> >> :> 9),
     inodes |-> (0 :> Inode("dir", 493, <<>>, <<>>, 0)) @@
                (1 :> Inode("dir", 493, <<>>, <<>>, 0)) @@
                (2 :> Inode("dir", 493, <<>>, <<>>, 0)) @@
                (3 :> Inode("dir", 493, <<>>, <<>>, 0)) @@
                (4 :> Inode("dir", 493, <<>>, <<>>, 0)) @@
                (5 :> Inode("dir", 493, <<>>, <<>>, 0)) @@
                (6 :> Inode("file", 384, <<9>>, <<>>, 0)) @@
                (7 :> Inode("file", 420, <<8>>, <<>>, 0)) @@
                (8 :> Inode("dir", 493, <<>>, <<>>, 0)) @@
                (9 :> Inode("file", 420, <<8>>, <<>>, 0))]

\* the same with a file f and a directory d left in the destination
UsedFS ==
    [names |-> (<<  >> :> 0) @@
               (<< <<"w">> >> :> 1) @@
               (<< <<"o">> >> :> 2) @@
               (<< <<"w">>, <<"o">> >> :> 3) @@
               (<< <<"o", "x">> >> :> 4) @@
               (<< <<"e">> >> :> 5) @@
               (<< <<"e">>, <<"p">> >> :> 6) @@
               (<< <<"o", "x">>, <<"f">> >> :> 7) @@
               (<< <<"w">>, <<"o", "x">> >> :> 8) @@
               (<< <<"w">>, <<"o", "x">>, <<"f">> >> :> 9) @@
               (<< <<"o">>, <<"f">> >> :> 10) @@
               (<< <<"o">>, <<"d">> >> :> 11) @@
               (<< <<"w">>, <<"o">>, <<"f">> >> :> 12),
     inodes |-> (0 :> Inode("dir", 493, <<>>, <<>>, 0)) @@
                (1 :> Inode("dir", 493, <<>>, <<>>, 0)) @@
                (2 :> Inode("dir", 493, <<>>, <<>>, 0)) @@
                (3 :> Inode("dir", 493, <<>>, <<>>, 0)) @@
                (4 :> Inode("dir", 493, <<>>, <<>>, 0)) @@
                (5 :> Inode("dir", 493, <<>>, <<>>, 0)) @@
                (6 :> Inode("file", 384, <<9>>, <<>>, 0)) @@
                (7 :> Inode("file", 420, <<8>>, <<>>, 0)) @@
                (8 :> Inode("dir", 493, <<>>, <<>>, 0)) @@
                (9 :> Inode("file", 420, <<8>>, <<>>, 0)) @@
                (10 :> Inode("file", 384, <<7, 7, 7>>, <<>>, 0)) @@
                (11 :> Inode("dir", 448, <<>>, <<>>, 0)) @@
                (12 :> Inode("file", 384, <<7, 7, 7>>, <<>>, 0))]

InitialFS == {BaseFS, UsedFS}
Umasks == {0, 18}

FailPoints == {[call |-> c, wrote |-> 0] : c \in 0..4} \cup {[call |-> 4, wrote |-> 1]}

\* destination directories of ExtractTar
WalkRoots == {<<"/", "o">>, <<"o">>}

\* the entries tr.Next() may return to ExtractTar
WalkEntries ==
    {Entry(Hdr(<<"d", "/">>, "TypeDir", 448, <<>>, 0, 0), <<>>),
     Entry(Hdr(<<"d">>, "TypeDir", 488, <<>>, 0, 0), <<>>),
     Entry(Hdr(<<"d", "/", "f">>, "TypeReg", 420, <<>>, 0, 0), <<1>>),
     Entry(Hdr(<<"f">>, "TypeReg", 384, <<>>, 0, 0), <<1, 2>>),
     Entry(Hdr(<<"f">>, "TypeRegA", 420, <<>>, 0, 0), <<3>>),
     Entry(Hdr(<<"s">>, "TypeSymlink", 511, <<"/", "e">>, 0, 0), <<>>),
     Entry(Hdr(<<"s", "/", "p">>, "TypeReg", 420, <<>>, 0, 0), <<4>>),
     Entry(Hdr(<<"l">>, "TypeSymlink", 511, <<"d">>, 0, 0), <<>>),
     Entry(Hdr(<<"l">>, "TypeDir", 457, <<>>, 0, 0), <<>>),
     Entry(Hdr(<<"h">>, "TypeLink", 420, <<"f">>, 0, 0), <<>>),
     Entry(Hdr(<<"g">>, "TypeLink", 420, <<".", ".", "/", "o", "x", "/", "f">>, 0, 0), <<>>),
     Entry(Hdr(<<"t">>, "TypeSymlink", 511, <<".", ".", "/", ".", ".", "/", "e">>, 0, 0), <<>>),
     Entry(Hdr(<<"q">>, "TypeFifo", 420, <<>>, 0, 0), <<>>),
     Entry(Hdr(<<"c">>, "TypeChar", 438, <<>>, 1, 3), <<>>),
     Entry(Hdr(<<"b">>, "TypeBlock", 432, <<>>, 8, 1), <<>>),
     Entry(Hdr(<<".", ".", "/", "o", "x", "/", "g">>, "TypeReg", 420, <<>>, 0, 0), <<5>>)}

\* destination directories of a direct ExtractFile call: /o, and o, ./o, o/
\* and . relative to the working directory
EntryRoots == {<<"/", "o">>, <<"o">>, <<".", "/", "o">>, <<"o", "/">>, <<".">>}

\* the entries of direct ExtractFile calls
DirectEntries ==
    {Entry(Hdr(<<"f">>, "TypeReg", 420, <<>>, 0, 0), <<3>>),
     Entry(Hdr(<<"d", "/">>, "TypeDir", 448, <<>>, 0, 0), <<>>),
     Entry(Hdr(<<"d", "/", "f">>, "TypeRegA", 384, <<>>, 0, 0), <<1, 2>>),
     Entry(Hdr(<<"h">>, "TypeLink", 420, <<"f">>, 0, 0), <<>>),
     Entry(Hdr(<<"h">>, "TypeLink", 420, <<".", ".", "/", "o", "x", "/", "f">>, 0, 0), <<>>),
     Entry(Hdr(<<"h">>, "TypeLink", 420, <<".", ".", "/", "e", "/", "p">>, 0, 0), <<>>),
     Entry(Hdr(<<"s">>, "TypeSymlink", 511, <<"f">>, 0, 0), <<>>),
     Entry(Hdr(<<"s">>, "TypeSymlink", 511, <<".">>, 0, 0), <<>>),
     Entry(Hdr(<<"s">>, "TypeSymlink", 511, <<".", ".", "/", "o", "x">>, 0, 0), <<>>),
     Entry(Hdr(<<"s">>, "TypeSymlink", 511, <<".", ".", "/", ".", ".", "/", "e", "/", "p">>, 0, 0), <<>>),
     Entry(Hdr(<<"d", "/", "s">>, "TypeSymlink", 511, <<".", ".", "/", "f">>, 0, 0), <<>>),
     Entry(Hdr(<<".", ".", "/", "o", "x", "/", "g">>, "TypeReg", 420, <<>>, 0, 0), <<5>>),
     Entry(Hdr(<<".", ".", "/", "o", "x", "/", "k">>, "TypeDir", 493, <<>>, 0, 0), <<>>),
     Entry(Hdr(<<"q">>, "TypeFifo", 420, <<>>, 0, 0), <<>>),
     Entry(Hdr(<<"c">>, "TypeChar", 438, <<>>, 1, 3), <<>>),
     Entry(Hdr(<<"b">>, "TypeBlock", 432, <<>>, 8, 1), <<>>)}

\* what tr.Next() may return to ExtractFileFromTar
LookupItems ==
    {Item(Hdr(<<"a", "/", "b">>, "TypeReg", 420, <<>>, 0, 0), <<1>>, FALSE),
     Item(Hdr(<<".", "/", "a", "/", "/", "b">>, "TypeRegA", 420, <<>>, 0, 0), <<2>>, FALSE),
     Item(Hdr(<<"a", "/">>, "TypeDir", 493, <<>>, 0, 0), <<>>, FALSE),
     Item(Hdr(<<"a", "/", "b">>, "TypeSymlink", 511, <<"m">>, 0, 0), <<>>, FALSE),
     Item(Hdr(<<"m">>, "TypeReg", 420, <<>>, 0, 0), <<3>>, FALSE),
     Item(Hdr(<<"a", "/", "b">>, "TypeReg", 420, <<>>, 0, 0), <<4, 5>>, TRUE),
     Item(Hdr(<<>>, "readerr", 0, <<>>, 0, 0), <<>>, FALSE)}
WantedNames == {<<"a", "/", "b">>, <<"a", "/">>, <<"a", "/", ".", "/", "b">>, <<"m">>, <<"z">>}

RECURSIVE SeqsUpTo(_, _)
SeqsUpTo(S, n) ==
    IF n = 0 THEN {<<>>}
    ELSE LET shorter == SeqsUpTo(S, n - 1)
         IN shorter \cup {Append(q, e) : q \in shorter, e \in S}

(***************************************************************************)
(* State                                                                   *)
(***************************************************************************)
VARIABLES
    fs,        \* the file system
    umask,     \* the process file-creation mask
    pc,        \* "idle", "extracting" (in the loop of ExtractTar), "returned"
    dir,       \* the destination directory of the call
    um,        \* ExtractTar's local um, the mask Umask(0) returned
    ret,       \* the error the last call returned
    nread,     \* number of entries read by tr.Next() or passed to ExtractFile
    stream,    \* "open", "eof" or "err": what tr.Next() returned last
    archive,   \* input of ExtractFileFromTar
    wanted,    \* input of ExtractFileFromTar
    result,    \* result of ExtractFileFromTar
    um0,       \* history: the mask before the call
    pre,       \* history: the file system before the last entry
    last,      \* history: the last entry passed to ExtractFile and its error
    failed,    \* history: some entry failed
    dirModes   \* history: real path -> mode of the last TypeDir entry extracted there

vars == <<fs, umask, pc, dir, um, ret, nread, stream, archive, wanted, result,
          um0, pre, last, failed, dirModes>>

NoResult == [buf |-> <<>>, err |-> [dyn |-> "none", site |-> "none"]]
NoCall == [hdr |-> NoHdr, content |-> <<>>, fail |-> 0, err |-> NoErr]
\* the empty function
NoModes == [q \in {} |-> 0]

InitCommon ==
    /\ fs \in InitialFS
    /\ umask \in Umasks
    /\ pc = "idle"
    /\ um = 0
    /\ ret = NoErr
    /\ nread = 0
    /\ stream = "open"
    /\ result = NoResult
    /\ um0 = umask
    /\ pre = fs
    /\ last = NoCall
    /\ failed = FALSE
    /\ dirModes = NoModes

Init ==
    /\ InitCommon
    /\ dir \in WalkRoots
    /\ archive = <<>>
    /\ wanted = <<>>

InitEntry ==
    /\ InitCommon
    /\ dir \in EntryRoots
    /\ archive = <<>>
    /\ wanted = <<>>

InitLookup ==
    /\ InitCommon
    /\ dir = <<>>
    /\ archive \in SeqsUpTo(LookupItems, MaxArchive)
    /\ wanted \in WantedNames

(***************************************************************************)
(* ExtractTar                                                              *)
(***************************************************************************)
\* the history of one ExtractFile call
Record(e, fail, r) ==
    /\ pre' = fs
    /\ last' = [hdr |-> e.hdr, content |-> e.content, fail |-> fail.call, err |-> r.err]
    /\ failed' = (failed \/ r.err /= NoErr)
    /\ dirModes' =
         IF e.hdr.Typeflag = "TypeDir" /\ r.err = NoErr
         THEN LET d == Resolve(r.fs, Join(dir, e.hdr.Name), TRUE).path
              IN (d :> FileMode(e.hdr)) @@ dirModes
         ELSE dirModes

\* fmt.Errorf("error extracting tarball: %v", err)
Wrap(err) == [dyn |-> Errorf("x").dyn, site |-> err.site]

\* um := syscall.Umask(0); defer syscall.Umask(um)
Begin ==
    /\ pc = "idle"
    /\ um' = umask
    /\ umask' = 0
    /\ pc' = "extracting"
    /\ UNCHANGED <<fs, dir, ret, nread, stream, archive, wanted, result,
                   um0, pre, last, failed, dirModes>>

\* Return without the deferred call
Return_NoRestore(err) ==
    /\ pc' = "returned"
    /\ ret' = err
    /\ umask' = umask

\* return err, then the deferred syscall.Umask(um)
Return(err) ==
    /\ pc' = "returned"
    /\ ret' = err
    /\ umask' = um

\* NextEntry that goes on with the next entry after a failure
NextEntry_Continue ==
    /\ pc = "extracting"
    /\ nread < MaxEntries
    /\ \E e \in WalkEntries, fail \in FailPoints :
         LET r == ExtractFile(fs, umask, e.hdr, e.content, dir, fail)
         IN /\ fs' = r.fs
            /\ nread' = nread + 1
            /\ Record(e, fail, r)
            /\ UNCHANGED <<pc, ret, umask>>
    /\ UNCHANGED <<dir, um, stream, archive, wanted, result, um0>>

\* tr.Next() returns a header: ExtractFile, and return when it fails
NextEntry ==
    /\ pc = "extracting"
    /\ nread < MaxEntries
    /\ \E e \in WalkEntries, fail \in FailPoints :
         LET r == ExtractFile(fs, umask, e.hdr, e.content, dir, fail)
         IN /\ fs' = r.fs
            /\ nread' = nread + 1
            /\ Record(e, fail, r)
            /\ IF r.err /= NoErr THEN Return(Wrap(r.err))
               ELSE UNCHANGED <<pc, ret, umask>>
    /\ UNCHANGED <<dir, um, stream, archive, wanted, result, um0>>

\* tr.Next() returns io.EOF
NextEOF ==
    /\ pc = "extracting"
    /\ stream' = "eof"
    /\ Return(NoErr)
    /\ UNCHANGED <<fs, dir, um, nread, archive, wanted, result, um0, pre, last,
                   failed, dirModes>>

\* tr.Next() returns another error
NextErr ==
    /\ pc = "extracting"
    /\ stream' = "err"
    /\ Return(Wrap(Errorf("tr.Next")))
    /\ UNCHANGED <<fs, dir, um, nread, archive, wanted, result, um0, pre, last,
                   failed, dirModes>>

Next == Begin \/ NextEntry \/ NextEOF \/ NextErr

Spec == Init /\ [][Next]_vars

(***************************************************************************)
(* Direct calls of ExtractFile                                             *)
(***************************************************************************)
CallExtractFile ==
    /\ pc = "idle"
    /\ nread < MaxCalls
    /\ \E e \in DirectEntries, fail \in FailPoints :
         LET r == ExtractFile(fs, umask, e.hdr, e.content, dir, fail)
         IN /\ fs' = r.fs
            /\ ret' = r.err
            /\ nread' = nread + 1
            /\ Record(e, fail, r)
    /\ UNCHANGED <<umask, pc, dir, um, stream, archive, wanted, result, um0>>

NextDirect == CallExtractFile

SpecEntry == InitEntry /\ [][NextDirect]_vars

(***************************************************************************)
(* Calls of ExtractFileFromTar                                             *)
(***************************************************************************)
Lookup ==
    /\ pc = "idle"
    /\ result' = ExtractFileFromTar(archive, wanted)
    /\ pc' = "returned"
    /\ UNCHANGED <<fs, umask, dir, um, ret, nread, stream, archive, wanted,
                   um0, pre, last, failed, dirModes>>

NextLookup == Lookup

SpecLookup == InitLookup /\ [][NextLookup]_vars

(***************************************************************************)
(* Properties                                                              *)
(***************************************************************************)
IsPrefixSeq(a, b) == Len(a) <= Len(b) /\ SubSeq(b, 1, Len(a)) = a

\* the location a path string denotes, "." and ".." taken lexically
AbsComps(s) == CleanStack((IF IsRooted(s) THEN <<>> ELSE Cwd) \o Components(s), <<>>, TRUE)

\* the path is the destination directory or below it
Inside(s, root) == IsPrefixSeq(AbsComps(root), AbsComps(s))

\* lstat(s) succeeds
LExists(f, s) == LET r == Resolve(f, s, FALSE) IN r.ok /\ Exists(f, r.path)

TargetPath == Join(dir, last.hdr.Name)
IsLinkEntry == last.hdr.Typeflag \in {"TypeLink", "TypeSymlink"}
LinkDestination ==
    IF last.hdr.Typeflag = "TypeLink" THEN Join(dir, last.hdr.Linkname)
    ELSE Join(Dir(TargetPath), last.hdr.Linkname)
InsecureSites == {"insecure link", "insecure symlink"}

\* C1: a hard link or symbolic link entry whose resolved destination is
\* neither the destination directory nor below it fails with the insecure
\* link error, and nothing exists at the target path afterwards.
C1_OutsideLinkRejected ==
    (IsLinkEntry /\ last.fail = 0 /\ ~LExists(pre, TargetPath)
       /\ ~Inside(LinkDestination, dir))
    => (last.err.site \in InsecureSites /\ ~LExists(fs, TargetPath))

\* the names whose object was created or modified between f and g
Changed(f, g) ==
    {q \in DOMAIN g.names :
        \/ q \notin DOMAIN f.names
        \/ g.inodes[g.names[q]] /= f.inodes[f.names[q]]}

RealRoot == Resolve(pre, dir, TRUE).path

\* C2: every file system mutation of an entry applied by ExtractTar lands at
\* a real location (symbolic links of earlier entries followed) inside the
\* destination directory.  Stated for the entries whose target path is
\* textually under the destination directory; C3 is about the others.
C2_MutationsInsideRoot ==
    Inside(TargetPath, dir)
    => \A q \in Changed(pre, fs) : IsPrefixSeq(RealRoot, q)

\* C3: an entry whose target path join(dir, name) is not under the
\* destination directory is rejected with an error and nothing is created or
\* written.
C3_EscapingNameRejected ==
    (last.hdr.Typeflag /= "none" /\ ~Inside(TargetPath, dir))
    => (last.err /= NoErr /\ fs = pre)

\* C4: a link entry whose resolved destination is inside the destination
\* directory is extracted successfully, whatever the spelling of the
\* destination directory: a hard link names the inode of its destination, a
\* symbolic link stores the raw link name.
C4_InsideLinkCreated ==
    (/\ IsLinkEntry /\ last.fail = 0
     /\ Inside(TargetPath, dir) /\ Inside(LinkDestination, dir)
     /\ ~LExists(pre, TargetPath)
     /\ (last.hdr.Typeflag = "TypeLink" =>
            LET o == Resolve(pre, LinkDestination, FALSE)
            IN o.ok /\ Exists(pre, o.path) /\ NodeAt(pre, o.path).kind = "file"))
    => (/\ last.err = NoErr
        /\ LExists(fs, TargetPath)
        /\ LET n == Resolve(fs, TargetPath, FALSE).path
           IN IF last.hdr.Typeflag = "TypeLink"
              THEN fs.names[n] = fs.names[Resolve(fs, LinkDestination, FALSE).path]
              ELSE /\ NodeAt(fs, n).kind = "symlink"
                   /\ NodeAt(fs, n).target = last.hdr.Linkname)

\* C5: after a regular file entry is extracted successfully over nothing or
\* over a regular file, the file at the target path holds exactly the entry's
\* content and has the entry's permission bits.
C5_RegularFileRoundTrip ==
    (/\ last.hdr.Typeflag \in {"TypeReg", "TypeRegA"}
     /\ last.err = NoErr)
    => LET n == Resolve(fs, TargetPath, TRUE)
       IN /\ n.ok /\ Exists(fs, n.path)
          /\ NodeAt(fs, n.path).kind = "file"
          /\ NodeAt(fs, n.path).data = last.content
          /\ NodeAt(fs, n.path).mode = FileMode(last.hdr)

\* C6: after a directory entry is extracted successfully the directory at
\* the target path exists with the entry's permission bits, also when it
\* existed before with other bits; an entry for a directory that exists is
\* extracted successfully unless a library call fails for a reason of the
\* environment; and at every point of ExtractTar each directory has the mode
\* of the last directory entry extracted for it.
C6_DirectoryMode ==
    /\ (/\ last.hdr.Typeflag = "TypeDir" /\ last.fail = 0
        /\ LET d == Resolve(pre, TargetPath, TRUE) IN d.ok /\ IsDirAt(pre, d.path))
       => last.err = NoErr
    /\ (last.hdr.Typeflag = "TypeDir" /\ last.err = NoErr)
       => LET d == Resolve(fs, TargetPath, TRUE)
          IN /\ d.ok /\ IsDirAt(fs, d.path)
             /\ NodeAt(fs, d.path).mode = FileMode(last.hdr)
    /\ \A q \in DOMAIN dirModes :
          IsDirAt(fs, q) /\ NodeAt(fs, q).mode = dirModes[q]

\* a directory entry was extracted over a directory that existed with other
\* permission bits, and ExtractTar returned success
C6_Witness ==
    /\ pc = "returned" /\ ret = NoErr
    /\ last.hdr.Typeflag = "TypeDir" /\ last.err = NoErr
    /\ LET d == Resolve(pre, TargetPath, TRUE)
       IN /\ d.ok /\ IsDirAt(pre, d.path)
          /\ NodeAt(pre, d.path).mode /= FileMode(last.hdr)

\* C7: the file-creation mask is zero while ExtractTar extracts entries and
\* equals its value before the call once ExtractTar has returned, on every
\* return path.
C7_MaskRestored ==
    /\ pc = "extracting" => umask = 0
    /\ pc = "returned" => umask = um0

\* ExtractTar returned the failure of its second entry, the mask before the
\* call being non-zero
C7_Witness ==
    pc = "returned" /\ failed /\ nread = 2 /\ um0 /= 0

\* C8: ExtractTar stops at the first failure: once an entry failed or
\* tr.Next() failed it has returned an error and the failed entry is the last
\* one read; nothing an earlier entry created is removed; it returns success
\* only at end of stream with no entry failed.
C8_StopAtFirstFailure ==
    /\ failed => (pc = "returned" /\ ret /= NoErr /\ last.err /= NoErr)
    /\ stream = "err" => (pc = "returned" /\ ret /= NoErr)
    /\ (pc = "returned" /\ ret = NoErr) => (stream = "eof" /\ ~failed)
    /\ \A q \in DOMAIN pre.names :
          /\ q \in DOMAIN fs.names
          /\ fs.names[q] = pre.names[q]
          /\ NodeAt(fs, q).kind = NodeAt(pre, q).kind

\* ExtractTar returned the error of an unsupported second entry and what the
\* first entry created is still there
C8_Witness ==
    /\ pc = "returned" /\ ret /= NoErr /\ nread = 2
    /\ last.hdr.Typeflag = "TypeFifo"
    /\ \E q \in DOMAIN fs.names : q \notin DOMAIN UsedFS.names

IsRegular(e) == e.hdr.Typeflag \in {"TypeReg", "TypeRegA"}
Matching == {i \in 1..Len(archive) : Clean(archive[i].hdr.Name) = Clean(wanted)}
FirstMatch == CHOOSE i \in Matching : \A j \in Matching : i <= j
\* the stream can be read up to the entry that decides the result
Readable ==
    LET upto == IF Matching = {} THEN Len(archive) ELSE FirstMatch
    IN /\ \A i \in 1..upto : archive[i].hdr.Typeflag /= "readerr"
       /\ Matching /= {} => ~archive[FirstMatch].truncated

\* C9: on a stream that can be read, the result of ExtractFileFromTar is
\* decided by the first entry whose cleaned name equals the cleaned wanted
\* name: its content when it is a regular file, the not-a-regular-file error
\* otherwise, the not-found error when no entry matches.
C9_FirstMatchDecides ==
    (pc = "returned" /\ Readable)
    => IF Matching = {}
       THEN result.err.site = "file not found"
       ELSE IF IsRegular(archive[FirstMatch])
            THEN result.err = NoErr /\ result.buf = archive[FirstMatch].content
            ELSE result.err.site = "requested file not a regular file"

\* the first match is not a regular file, a later regular file has the same
\* cleaned name, and the lookup failed
C9_Witness ==
    /\ pc = "returned" /\ Readable /\ Matching /= {}
    /\ ~IsRegular(archive[FirstMatch])
    /\ \E i \in Matching : IsRegular(archive[i])
    /\ result.err.site = "requested file not a regular file"

\* the dynamic types of the errors of I/O failures, read failures and
\* unsupported types
OrdinaryKinds ==
    {PathError("x").dyn, LinkError("x").dyn, Errno("x").dyn,
     Errorf("unsupported type").dyn, Wrap(Errorf("tr.Next")).dyn}

\* C10: the error of a link rejected by the containment check, as returned
\* by ExtractFile and by ExtractTar, has a kind no other error has.
C10_InsecureLinkKind ==
    last.err.site \in InsecureSites
    => (/\ last.err.dyn \notin OrdinaryKinds
        /\ pc = "returned" => ret.dyn \notin OrdinaryKinds)

====
